---------------------------- MODULE Spec2Model ----------------------------
(* StatusChecker (packages/cli/src/models/status/StatusChecker.js):        *)
(* reconciliation of a local network file against the state recorded on    *)
(* chain, driven through a visitor (StatusFetcher or StatusComparator).    *)
EXTENDS Integers, Sequences, FiniteSets, TLC

(***************************************************************************)
(* Bounds and value universes                                              *)
(***************************************************************************)
\* longest ImplementationChanged log drawn in Init
MaxEvents == 2

ZERO_ADDRESS == "0x0"

Aliases == {"Token", "Vault"}
\* iteration order of networkFile.contractAliases
AliasOrder == <<"Token", "Vault">>
ImplAddrs == {"0xA", "0xB"}
ProxyAddrs == {"0xP1", "0xP2"}

VARIABLES
  networkFile,   \* this.networkFile: the local descriptor
  chain,         \* the ledger: scalars, event logs, proxy implementations
  visitor,       \* this.visitor: "fetch" (StatusFetcher) or "compare" (StatusComparator)
  hooks,         \* every visitor hook invoked in the current run, in order
  pc,            \* position of call(): "call", "log", "checks", "fanOut", "done", "error"
  step,          \* index of the next check of checkApp / checkLib
  executed,      \* names of the checks entered so far in this run, in order
  project,       \* this._project: "none" until project() resolved the handle
  implsInfo,     \* implementationsInfo of checkImplementations (line 95)
  fanImpls,      \* implementationsInfo captured by _fetchOnChainProxies (line 176)
  tasks,         \* per ProxyCreated event: "pending", "done" or "failed" lookup
  proxiesInfo,   \* the proxiesInfo array of _fetchOnChainProxies (line 180)
  error,         \* the error call() rejected with, NoError until then
  failed,        \* the ledger read that threw in this run, or "none"
  run,           \* 1 for the first call(), 2 for a compare that follows a fetch
  start          \* networkFile as it was when the current run was constructed

vars == <<networkFile, chain, visitor, hooks, pc, step, executed, project,
          implsInfo, fanImpls, tasks, proxiesInfo, error, failed, run, start>>

SeqsUpTo(S, n) == UNION {[1..k -> S] : k \in 0..n}


(***************************************************************************)
(* The ledger side consumed by the checker                                 *)
(***************************************************************************)
\* web3.eth.getCode(address): the code deployed at an address
getCode(address) ==
  IF address = "0xA" THEN "codeA" ELSE IF address = "0xB" THEN "codeB" ELSE "0x"

\* bytecodeDigest of utils/contracts: a fingerprint of a piece of code
bytecodeDigest(code) ==
  IF code = "codeA" THEN "hashA" ELSE IF code = "codeB" THEN "hashB" ELSE "hashEmpty"

Hashes == {"hashA", "hashB"}

(***************************************************************************)
(* The local descriptor (networkFile)                                      *)
(***************************************************************************)
hasContract(nf, alias) == alias \in DOMAIN nf.contracts

contract(nf, alias) == nf.contracts[alias]

contractAliases(nf) == SelectSeq(AliasOrder, LAMBDA a : a \in DOMAIN nf.contracts)

proxiesList(nf) == nf.proxies

\* Array.prototype.find: index of the first proxy with the address, 0 if none
RECURSIVE FindProxy(_, _, _)
FindProxy(list, address, i) ==
  IF i > Len(list) THEN 0
  ELSE IF list[i].address = address THEN i
  ELSE FindProxy(list, address, i + 1)

(***************************************************************************)
(* The visitors.  StatusFetcher writes what was observed on chain into the *)
(* descriptor and removes local-only entries; StatusComparator records.   *)
(***************************************************************************)
\* the third argument of a hook that is given two
NoMeta == [none |-> TRUE]

Hook(name, expected, observed, meta, item) ==
  [hook |-> name, expected |-> expected, observed |-> observed,
   meta |-> meta, item |-> item]

StatusFetcher(nf, h) ==
  CASE h.hook = "onMismatchingVersion" -> [nf EXCEPT !.version = h.observed]
    [] h.hook = "onMismatchingPackage" -> [nf EXCEPT !.packageAddress = h.observed]
    [] h.hook = "onMismatchingProvider" -> [nf EXCEPT !.providerAddress = h.observed]
    [] h.hook = "onMismatchingStdlib" -> [nf EXCEPT !.stdlibAddress = h.observed]
    [] h.hook = "onMissingRemoteContract" ->
         [nf EXCEPT !.contracts =
            [a \in DOMAIN nf.contracts \cup {h.meta.alias} |->
               IF a = h.meta.alias
               THEN [address |-> h.meta.address,
                     bodyBytecodeHash |-> bytecodeDigest(getCode(h.meta.address))]
               ELSE nf.contracts[a]]]
    [] h.hook = "onMismatchingContractAddress" ->
         [nf EXCEPT !.contracts[h.meta.alias].address = h.meta.address]
    [] h.hook = "onMismatchingContractBodyBytecode" ->
         [nf EXCEPT !.contracts[h.meta.alias].bodyBytecodeHash = h.meta.bodyBytecodeHash]
    [] h.hook = "onUnregisteredLocalContract" ->
         [nf EXCEPT !.contracts =
            [a \in DOMAIN nf.contracts \ {h.meta.alias} |-> nf.contracts[a]]]
    [] h.hook = "onMissingRemoteProxy" ->
         [nf EXCEPT !.proxies = Append(nf.proxies,
            [alias |-> h.meta.alias, address |-> h.meta.address,
             implementation |-> h.meta.implementation])]
    [] h.hook = "onMismatchingProxyAlias" ->
         LET i == FindProxy(nf.proxies, h.meta.address, 1) IN
         IF i = 0 THEN nf ELSE [nf EXCEPT !.proxies[i].alias = h.meta.alias]
    [] h.hook = "onMismatchingProxyImplementation" ->
         LET i == FindProxy(nf.proxies, h.meta.address, 1) IN
         IF i = 0 THEN nf
         ELSE [nf EXCEPT !.proxies[i].implementation = h.meta.implementation]
    [] h.hook = "onUnregisteredLocalProxy" ->
         [nf EXCEPT !.proxies = SelectSeq(nf.proxies,
            LAMBDA p : ~(p.alias = h.meta.alias /\ p.address = h.meta.address))]
    [] OTHER -> nf

ComparatorThatWrites(nf, h) == StatusFetcher(nf, h)

StatusComparator(nf, h) == nf

\* this.visitor.onX(...): st is the pair of the descriptor and the hook log
Visit(st, h) ==
  [nf |-> IF visitor = "fetch" THEN StatusFetcher(st.nf, h) ELSE StatusComparator(st.nf, h),
   hooks |-> Append(st.hooks, h)]

Here == [nf |-> networkFile, hooks |-> hooks]

(***************************************************************************)
(* Reconstruction of the registered implementations (lines 164-173)        *)
(***************************************************************************)
\* Array.prototype.lastIndexOf, 1-based, 0 when absent
RECURSIVE lastIndexOf(_, _, _)
lastIndexOf(seq, x, i) ==
  IF i = 0 THEN 0 ELSE IF seq[i] = x THEN i ELSE lastIndexOf(seq, x, i - 1)

\* Array.prototype.indexOf, 1-based, 0 when absent
RECURSIVE indexOf(_, _, _)
indexOf(seq, x, i) ==
  IF i > Len(seq) THEN 0 ELSE IF seq[i] = x THEN i ELSE indexOf(seq, x, i + 1)

\* allEvents.filter((event, index) => keep(index))
RECURSIVE FilterIndex(_, _, _)
FilterIndex(seq, keep, i) ==
  IF i > Len(seq) THEN <<>>
  ELSE (IF i \in keep THEN <<seq[i]>> ELSE <<>>) \o FilterIndex(seq, keep, i + 1)

FetchFirstOccurrence(allEvents) ==
  LET contractsAlias == [i \in DOMAIN allEvents |-> allEvents[i].contractName]
      last == {i \in DOMAIN allEvents :
                 indexOf(contractsAlias, allEvents[i].contractName, 1) = i}
      live == SelectSeq(FilterIndex(allEvents, last, 1),
                        LAMBDA e : e.implementation # ZERO_ADDRESS)
  IN [i \in DOMAIN live |->
        [alias |-> live[i].contractName, address |-> live[i].implementation]]

FetchKeepingZero(allEvents) ==
  LET contractsAlias == [i \in DOMAIN allEvents |-> allEvents[i].contractName]
      last == {i \in DOMAIN allEvents :
                 lastIndexOf(contractsAlias, allEvents[i].contractName,
                             Len(contractsAlias)) = i}
      live == FilterIndex(allEvents, last, 1)
  IN [i \in DOMAIN live |->
        [alias |-> live[i].contractName, address |-> live[i].implementation]]

_fetchOnChainImplementations(allEvents) ==
  LET contractsAlias == [i \in DOMAIN allEvents |-> allEvents[i].contractName]
      last == {i \in DOMAIN allEvents :
                 lastIndexOf(contractsAlias, allEvents[i].contractName,
                             Len(contractsAlias)) = i}
      live == SelectSeq(FilterIndex(allEvents, last, 1),
                        LAMBDA e : e.implementation # ZERO_ADDRESS)
  IN [i \in DOMAIN live |->
        [alias |-> live[i].contractName, address |-> live[i].implementation]]

(***************************************************************************)
(* The scalar checks (lines 67-92)                                         *)
(***************************************************************************)
checkVersion(st) ==
  LET observed == chain.version
      expected == st.nf.version
  IN IF observed # expected
     THEN Visit(st, Hook("onMismatchingVersion", expected, observed, NoMeta, "version"))
     ELSE st

checkPackageUnlessReported(st) ==
  LET observed == chain.packageAddress
      expected == st.nf.packageAddress
  IN IF observed # expected /\ st.hooks = <<>>
     THEN Visit(st, Hook("onMismatchingPackage", expected, observed, NoMeta, "package"))
     ELSE st

checkPackage(st) ==
  LET observed == chain.packageAddress
      expected == st.nf.packageAddress
  IN IF observed # expected
     THEN Visit(st, Hook("onMismatchingPackage", expected, observed, NoMeta, "package"))
     ELSE st

checkProvider(st) ==
  LET observed == chain.providerAddress
      expected == st.nf.providerAddress
  IN IF observed # expected
     THEN Visit(st, Hook("onMismatchingProvider", expected, observed, NoMeta, "provider"))
     ELSE st

checkStdlibVerbatim(st) ==
  LET currentStdlib == chain.stdlib
      observed == currentStdlib
      expected == IF st.nf.stdlibAddress = "undefined" THEN "none" ELSE st.nf.stdlibAddress
  IN IF observed # expected
     THEN Visit(st, Hook("onMismatchingStdlib", expected, observed, NoMeta, "stdlib"))
     ELSE st

checkStdlib(st) ==
  LET currentStdlib == chain.stdlib
      observed == IF currentStdlib = ZERO_ADDRESS THEN "none" ELSE currentStdlib
      expected == IF st.nf.stdlibAddress = "undefined" THEN "none" ELSE st.nf.stdlibAddress
  IN IF observed # expected
     THEN Visit(st, Hook("onMismatchingStdlib", expected, observed, NoMeta, "stdlib"))
     ELSE st

(***************************************************************************)
(* The implementation checks (lines 106-133)                               *)
(***************************************************************************)
_checkImplementationAddress(st, alias, address) ==
  LET expected == contract(st.nf, alias).address
  IN IF address # expected
     THEN Visit(st, Hook("onMismatchingContractAddress", expected, address,
                         [alias |-> alias, address |-> address], alias))
     ELSE st

_checkImplementationBytecode(st, alias, address) ==
  LET expected == contract(st.nf, alias).bodyBytecodeHash
      observed == bytecodeDigest(getCode(address))
  IN IF observed # expected
     THEN Visit(st, Hook("onMismatchingContractBodyBytecode", expected, observed,
                         [alias |-> alias, address |-> address,
                          bodyBytecodeHash |-> observed], alias))
     ELSE st

CheckRemoteImplementationCoalesced(st, info) ==
  IF hasContract(st.nf, info.alias)
  THEN IF info.address # contract(st.nf, info.alias).address
       THEN _checkImplementationAddress(st, info.alias, info.address)
       ELSE _checkImplementationBytecode(st, info.alias, info.address)
  ELSE Visit(st, Hook("onMissingRemoteContract", "none", "one",
                      [alias |-> info.alias, address |-> info.address], info.alias))

_checkRemoteImplementation(st, info) ==
  IF hasContract(st.nf, info.alias)
  THEN _checkImplementationBytecode(
         _checkImplementationAddress(st, info.alias, info.address),
         info.alias, info.address)
  ELSE Visit(st, Hook("onMissingRemoteContract", "none", "one",
                      [alias |-> info.alias, address |-> info.address], info.alias))

\* implementationsInfo.forEach(info => this._checkRemoteImplementation(info)),
\* entries i..n
RECURSIVE ForEachImplementation(_, _, _, _)
ForEachImplementation(st, infos, i, n) ==
  IF i > n THEN st
  ELSE ForEachImplementation(_checkRemoteImplementation(st, infos[i]), infos, i + 1, n)

RECURSIVE ForEachLocalOnlyContract(_, _, _)
ForEachLocalOnlyContract(st, aliases, i) ==
  IF i > Len(aliases) THEN st
  ELSE ForEachLocalOnlyContract(
         Visit(st, Hook("onUnregisteredLocalContract", "one", "none",
                        [alias |-> aliases[i],
                         address |-> contract(st.nf, aliases[i]).address],
                        aliases[i])),
         aliases, i + 1)

_checkUnregisteredLocalImplementations(st, implementationsInfo) ==
  LET foundAliases == {implementationsInfo[i].alias : i \in DOMAIN implementationsInfo}
  IN ForEachLocalOnlyContract(st,
       SelectSeq(contractAliases(st.nf), LAMBDA alias : alias \notin foundAliases), 1)

(***************************************************************************)
(* The proxy checks (lines 135-162)                                        *)
(***************************************************************************)
_checkProxyAlias(st, proxy, alias, address, implementation) ==
  LET expected == proxy.alias
  IN IF alias # expected
     THEN Visit(st, Hook("onMismatchingProxyAlias", expected, alias,
                         [alias |-> alias, address |-> address,
                          implementation |-> implementation], address))
     ELSE st

_checkProxyImplementation(st, proxy, alias, address, implementation) ==
  LET expected == proxy.implementation
  IN IF implementation # expected
     THEN Visit(st, Hook("onMismatchingProxyImplementation", expected, implementation,
                         [alias |-> alias, address |-> address,
                          implementation |-> implementation], address))
     ELSE st

CheckRemoteProxyListedOnly(st, info) ==
  LET list == proxiesList(st.nf)
      found == FindProxy(list, info.address, 1)
  IN IF found # 0
     THEN _checkProxyImplementation(
            _checkProxyAlias(st, list[found], info.alias, info.address, info.implementation),
            list[found], info.alias, info.address, info.implementation)
     ELSE st

_checkRemoteProxy(st, info) ==
  LET list == proxiesList(st.nf)
      found == FindProxy(list, info.address, 1)
  IN IF found # 0
     THEN _checkProxyImplementation(
            _checkProxyAlias(st, list[found], info.alias, info.address, info.implementation),
            list[found], info.alias, info.address, info.implementation)
     ELSE Visit(st, Hook("onMissingRemoteProxy", "none", "one",
                         [alias |-> info.alias, address |-> info.address,
                          implementation |-> info.implementation], info.address))

RECURSIVE ForEachProxy(_, _, _)
ForEachProxy(st, infos, i) ==
  IF i > Len(infos) THEN st
  ELSE ForEachProxy(_checkRemoteProxy(st, infos[i]), infos, i + 1)

RECURSIVE ForEachLocalOnlyProxy(_, _, _)
ForEachLocalOnlyProxy(st, list, i) ==
  IF i > Len(list) THEN st
  ELSE ForEachLocalOnlyProxy(
         Visit(st, Hook("onUnregisteredLocalProxy", "one", "none",
                        [alias |-> list[i].alias, address |-> list[i].address,
                         implementation |-> list[i].implementation],
                        list[i].address)),
         list, i + 1)

UnregisteredLocalProxiesByAlias(st, infos) ==
  LET foundAddresses == {infos[i].alias : i \in DOMAIN infos}
  IN ForEachLocalOnlyProxy(st,
       SelectSeq(proxiesList(st.nf), LAMBDA proxy : proxy.address \notin foundAddresses), 1)

_checkUnregisteredLocalProxies(st, infos) ==
  LET foundAddresses == {infos[i].address : i \in DOMAIN infos}
  IN ForEachLocalOnlyProxy(st,
       SelectSeq(proxiesList(st.nf), LAMBDA proxy : proxy.address \notin foundAddresses), 1)

(***************************************************************************)
(* Initial states: a freshly constructed checker (fetch or compare) over a *)
(* descriptor and a ledger.  Three families of inputs: the scalars vary,   *)
(* the implementation log and the contracts vary, the proxies vary.        *)
(***************************************************************************)
\* call() has not rejected
NoError == [source |-> "none", at |-> "none", address |-> "none"]

NetworkFile(isLib, stdlibAddress, contracts, proxies) ==
  [isLib |-> isLib, version |-> "1.0",
   appAddress |-> IF isLib THEN "undefined" ELSE "0xApp",
   packageAddress |-> "0xPkg", providerAddress |-> "0xDir",
   stdlibAddress |-> stdlibAddress, contracts |-> contracts, proxies |-> proxies]

Chain(version, packageAddress, providerAddress, stdlib, implEvents, proxyEvents, proxyImpl) ==
  [version |-> version, packageAddress |-> packageAddress,
   providerAddress |-> providerAddress, stdlib |-> stdlib,
   implEvents |-> implEvents, proxyEvents |-> proxyEvents, proxyImpl |-> proxyImpl]

ImplementationChanged ==
  [contractName : Aliases, implementation : ImplAddrs \cup {ZERO_ADDRESS}]

Logs == SeqsUpTo(ImplementationChanged, MaxEvents)

ContractEntry == [address : ImplAddrs, bodyBytecodeHash : Hashes]

\* the descriptor's contracts: any entry or none for Token, next to Vault absent,
\* at 0xB or at 0xA
Contracts ==
  {c \in UNION {[D -> ContractEntry] : D \in SUBSET Aliases} :
     "Vault" \in DOMAIN c =>
        c["Vault"] \in {[address |-> "0xB", bodyBytecodeHash |-> "hashB"],
                        [address |-> "0xA", bodyBytecodeHash |-> "hashA"]}}

\* the implementation logs next to which the proxies vary: nothing registered,
\* one alias, two aliases at two addresses, two aliases at one address, an
\* alias registered again, an alias set to the zero address
Registries ==
  LET ev(a, x) == [contractName |-> a, implementation |-> x]
  IN {<<>>, <<ev("Token", "0xA")>>, <<ev("Vault", "0xB")>>,
      <<ev("Token", "0xA"), ev("Vault", "0xB")>>,
      <<ev("Token", "0xA"), ev("Vault", "0xA")>>,
      <<ev("Token", "0xA"), ev("Token", "0xB")>>,
      <<ev("Token", "0xA"), ev("Token", ZERO_ADDRESS)>>}

\* the ProxyCreated logs: each proxy address is created once
ProxyLogs == {<<>>, <<[proxy |-> "0xP1"]>>, <<[proxy |-> "0xP1"], [proxy |-> "0xP2"]>>}

ProxyEntry(address) == [alias : Aliases, address : {address}, implementation : ImplAddrs]

LocalProxies ==
  {<<[alias |-> "Vault", address |-> "0xP1", implementation |-> "0xB"],
     [alias |-> "Token", address |-> "0xP1", implementation |-> "0xA"]>>} \cup
  {a \o b : a \in {<<>>} \cup {<<e>> : e \in ProxyEntry("0xP1")},
            b \in {<<>>, <<[alias |-> "Token", address |-> "0xP2", implementation |-> "0xA"]>>,
                         <<[alias |-> "Vault", address |-> "0xP2", implementation |-> "0xB"]>>}}

\* the implementations and proxies next to the scalars: in step with the
\* ledger, or drifted (one remote-only and one local-only entry of each kind)
ScalarInputs ==
  {<<NetworkFile(isLib, std,
                 IF drift
                 THEN [a \in {"Vault"} |-> [address |-> "0xB", bodyBytecodeHash |-> "hashB"]]
                 ELSE [a \in {"Token"} |-> [address |-> "0xA", bodyBytecodeHash |-> "hashA"]],
                 IF drift
                 THEN <<[alias |-> "Token", address |-> "0xP2", implementation |-> "0xA"]>>
                 ELSE <<[alias |-> "Token", address |-> "0xP1", implementation |-> "0xA"]>>),
     Chain(v, p, d, s, <<[contractName |-> "Token", implementation |-> "0xA"]>>,
           <<[proxy |-> "0xP1"]>>, [x \in ProxyAddrs |-> "0xA"])>> :
     isLib \in BOOLEAN, drift \in BOOLEAN, std \in {"undefined", "0xStd"},
     v \in {"1.0", "2.0"}, p \in {"0xPkg", "0xPkg2"}, d \in {"0xDir", "0xDir2"},
     s \in {ZERO_ADDRESS, "0xStd"}}

ImplementationInputs ==
  {<<NetworkFile(isLib, "undefined", c, <<>>),
     Chain("1.0", "0xPkg", "0xDir", ZERO_ADDRESS, log, <<>>, [x \in ProxyAddrs |-> "0xA"])>> :
     isLib \in BOOLEAN, c \in Contracts, log \in Logs}

\* the implementation of a proxy that was never created is not read: keep it fixed
ProxyInputs ==
  {in \in {<<NetworkFile(FALSE, "undefined", <<>>, lp),
             Chain("1.0", "0xPkg", "0xDir", ZERO_ADDRESS, log, pl, pi)>> :
             lp \in LocalProxies, log \in Registries, pl \in ProxyLogs,
             pi \in [ProxyAddrs -> ImplAddrs]} :
     \A x \in ProxyAddrs :
        (\A i \in DOMAIN in[2].proxyEvents : in[2].proxyEvents[i].proxy # x)
          => in[2].proxyImpl[x] = "0xA"}

Inputs == ScalarInputs \cup ImplementationInputs \cup ProxyInputs

Init ==
  /\ \E in \in Inputs : networkFile = in[1] /\ chain = in[2]
  /\ visitor \in {"fetch", "compare"}
  /\ hooks = <<>>
  /\ pc = "call"
  /\ step = 1
  /\ executed = <<>>
  /\ project = "none"
  /\ implsInfo = <<>>
  /\ fanImpls = <<>>
  /\ tasks = <<>>
  /\ proxiesInfo = <<>>
  /\ error = NoError
  /\ failed = "none"
  /\ run = 1
  /\ start = networkFile

(***************************************************************************)
(* call() (lines 42-51) and the check sequences (lines 53-65)              *)
(***************************************************************************)
checkApp ==
  <<"checkVersion", "checkPackage", "checkProvider", "checkStdlib",
    "checkImplementations", "checkProxies">>

checkLibWithVersion == <<"checkVersion", "checkProvider", "checkImplementations">>

checkLib == <<"checkProvider", "checkImplementations">>

Checks == IF networkFile.isLib THEN checkLib ELSE checkApp

At(name) == pc = "checks" /\ step <= Len(Checks) /\ Checks[step] = name

\* a check returned: its hooks are in st, the next check is up
Returned(st, name) ==
  /\ networkFile' = st.nf
  /\ hooks' = st.hooks
  /\ step' = step + 1
  /\ executed' = Append(executed, name)
  /\ UNCHANGED <<pc, error, failed>>

ThrewAndWentOn(st, name, read) ==
  /\ networkFile' = st.nf
  /\ hooks' = st.hooks
  /\ executed' = Append(executed, name)
  /\ failed' = read
  /\ step' = step + 1
  /\ UNCHANGED <<pc, error>>

\* a ledger read of a check threw after the hooks in st: the error propagates
\* through checkApp / checkLib and call() rejects with it
Threw(st, name, read) ==
  /\ networkFile' = st.nf
  /\ hooks' = st.hooks
  /\ executed' = Append(executed, name)
  /\ failed' = read
  /\ pc' = "error"
  /\ error' = [source |-> "ledger", at |-> name, address |-> "none"]
  /\ UNCHANGED step

\* what no step of a run changes: the ledger, the bound visitor, the run
Frame == UNCHANGED <<chain, visitor, run, start>>

\* project(), lines 28-36: the handle is fetched once and cached
Project ==
  /\ pc = "call"
  /\ project' = IF networkFile.isLib THEN "LibProject" ELSE "AppProject"
  /\ pc' = "log"
  /\ Frame
  /\ UNCHANGED <<networkFile, hooks, step, executed, implsInfo, fanImpls, tasks,
                 proxiesInfo, error, failed>>

ProjectFailsAndEndsChecking ==
  /\ pc = "call"
  /\ pc' = "error"
  /\ failed' = "fetchProject"
  /\ error' = [source |-> "project", at |-> "project",
               address |-> networkFile.appAddress]
  /\ hooks' = Visit(Here, Hook("onEndChecking", "none", "none", NoMeta, "end")).hooks
  /\ Frame
  /\ UNCHANGED <<networkFile, step, executed, project, implsInfo, fanImpls,
                 tasks, proxiesInfo>>

\* project(), lines 37-39: the fetch threw
ProjectFails ==
  /\ pc = "call"
  /\ pc' = "error"
  /\ failed' = "fetchProject"
  /\ error' = [source |-> "project", at |-> "project",
               address |-> networkFile.appAddress]
  /\ Frame
  /\ UNCHANGED <<networkFile, hooks, step, executed, project, implsInfo, fanImpls,
                 tasks, proxiesInfo>>

\* line 44: project.getProjectPackage()
GetProjectPackage ==
  /\ pc = "log"
  /\ pc' = "checks"
  /\ Frame
  /\ UNCHANGED <<networkFile, hooks, step, executed, project, implsInfo, fanImpls,
                 tasks, proxiesInfo, error, failed>>

GetProjectPackageFails ==
  /\ pc = "log"
  /\ pc' = "error"
  /\ failed' = "getProjectPackage"
  /\ error' = [source |-> "ledger", at |-> "call", address |-> "none"]
  /\ Frame
  /\ UNCHANGED <<networkFile, hooks, step, executed, project, implsInfo, fanImpls,
                 tasks, proxiesInfo>>

CheckVersion ==
  /\ At("checkVersion")
  /\ Returned(checkVersion(Here), "checkVersion")
  /\ Frame
  /\ UNCHANGED <<project, implsInfo, fanImpls, tasks, proxiesInfo>>

CheckPackage ==
  /\ At("checkPackage")
  /\ Returned(checkPackage(Here), "checkPackage")
  /\ Frame
  /\ UNCHANGED <<project, implsInfo, fanImpls, tasks, proxiesInfo>>

CheckProvider ==
  /\ At("checkProvider")
  /\ Returned(checkProvider(Here), "checkProvider")
  /\ Frame
  /\ UNCHANGED <<project, implsInfo, fanImpls, tasks, proxiesInfo>>

\* line 80: getCurrentDirectory() threw
CheckProviderFails ==
  /\ At("checkProvider")
  /\ Threw(Here, "checkProvider", "getCurrentDirectory")
  /\ Frame
  /\ UNCHANGED <<project, implsInfo, fanImpls, tasks, proxiesInfo>>

CheckStdlib ==
  /\ At("checkStdlib")
  /\ Returned(checkStdlib(Here), "checkStdlib")
  /\ Frame
  /\ UNCHANGED <<project, implsInfo, fanImpls, tasks, proxiesInfo>>

\* line 88: currentStdlib() threw
CheckStdlibFails ==
  /\ At("checkStdlib")
  /\ Threw(Here, "checkStdlib", "currentStdlib")
  /\ Frame
  /\ UNCHANGED <<project, implsInfo, fanImpls, tasks, proxiesInfo>>

\* checkImplementations, lines 94-98
checkImplementations(st, implementationsInfo) ==
  _checkUnregisteredLocalImplementations(
    ForEachImplementation(st, implementationsInfo, 1, Len(implementationsInfo)),
    implementationsInfo)

CheckImplementations ==
  /\ At("checkImplementations")
  /\ implsInfo' = _fetchOnChainImplementations(chain.implEvents)
  /\ Returned(checkImplementations(Here, implsInfo'), "checkImplementations")
  /\ Frame
  /\ UNCHANGED <<project, fanImpls, tasks, proxiesInfo>>

\* lines 166-167: getCurrentDirectory() or the log scan threw
CheckImplementationsScanFails ==
  /\ At("checkImplementations")
  /\ Threw(Here, "checkImplementations", "ImplementationChanged")
  /\ Frame
  /\ UNCHANGED <<project, implsInfo, fanImpls, tasks, proxiesInfo>>

\* line 121: web3.eth.getCode threw for the k-th registered implementation,
\* after the address check of that alias
CheckImplementationsGetCodeFails ==
  /\ At("checkImplementations")
  /\ LET implementationsInfo == _fetchOnChainImplementations(chain.implEvents)
     IN \E k \in DOMAIN implementationsInfo :
          LET before == ForEachImplementation(Here, implementationsInfo, 1, k - 1)
              info == implementationsInfo[k]
          IN /\ hasContract(before.nf, info.alias)
             /\ implsInfo' = implementationsInfo
             /\ Threw(_checkImplementationAddress(before, info.alias, info.address),
                      "checkImplementations", "getCode")
  /\ Frame
  /\ UNCHANGED <<project, fanImpls, tasks, proxiesInfo>>

(***************************************************************************)
(* checkProxies (lines 100-104) and _fetchOnChainProxies (lines 175-195):  *)
(* one lookup task per ProxyCreated event, joined by Promise.all           *)
(***************************************************************************)
\* lines 176-181: both log scans returned and the lookups are started
FetchOnChainProxies ==
  /\ At("checkProxies")
  /\ fanImpls' = _fetchOnChainImplementations(chain.implEvents)
  /\ proxiesInfo' = <<>>
  /\ tasks' = [i \in DOMAIN chain.proxyEvents |-> "pending"]
  /\ executed' = Append(executed, "checkProxies")
  /\ pc' = "fanOut"
  /\ Frame
  /\ UNCHANGED <<networkFile, hooks, step, project, implsInfo, error, failed>>

\* lines 176-179: a log scan threw
FetchOnChainProxiesFails ==
  /\ At("checkProxies")
  /\ Threw(Here, "checkProxies", "ProxyCreated")
  /\ Frame
  /\ UNCHANGED <<project, implsInfo, fanImpls, tasks, proxiesInfo>>

matchingOtherImplementations(implementationsInfo, implementation) ==
  SelectSeq(implementationsInfo, LAMBDA info : info.address # implementation)

\* line 184
matchingImplementations(implementationsInfo, implementation) ==
  SelectSeq(implementationsInfo, LAMBDA info : info.address = implementation)

\* lines 182-192: the lookup of the i-th proxy returned and its callback ran
ResolveProxy(i) ==
  /\ i \in DOMAIN tasks
  /\ tasks[i] = "pending"
  /\ LET address == chain.proxyEvents[i].proxy
         implementation == chain.proxyImpl[address]
         matching == matchingImplementations(fanImpls, implementation)
     IN IF Len(matching) > 1
        THEN /\ hooks' = Visit(Here, Hook("onMultipleProxyImplementations", "one",
                                          ToString(Len(matching)),
                                          [implementation |-> implementation],
                                          address)).hooks
             /\ UNCHANGED proxiesInfo
        ELSE IF Len(matching) = 0
        THEN /\ hooks' = Visit(Here, Hook("onUnregisteredProxyImplementation", "one",
                                          "none",
                                          [address |-> address,
                                           implementation |-> implementation],
                                          address)).hooks
             /\ UNCHANGED proxiesInfo
        ELSE /\ proxiesInfo' = Append(proxiesInfo,
                                      [alias |-> matching[1].alias,
                                       implementation |-> implementation,
                                       address |-> address])
             /\ UNCHANGED hooks
  /\ tasks' = [tasks EXCEPT ![i] = "done"]
  /\ Frame
  /\ UNCHANGED <<networkFile, pc, step, executed, project, implsInfo, fanImpls,
                 error, failed>>

\* line 183: getProxyImplementation threw for the i-th proxy
ResolveProxyFails(i) ==
  /\ i \in DOMAIN tasks
  /\ tasks[i] = "pending"
  /\ tasks' = [tasks EXCEPT ![i] = "failed"]
  /\ failed' = "getProxyImplementation"
  /\ Frame
  /\ UNCHANGED <<networkFile, hooks, pc, step, executed, project, implsInfo,
                 fanImpls, proxiesInfo, error>>

\* lines 101-103 after Promise.all fulfilled
checkProxies(st, infos) ==
  _checkUnregisteredLocalProxies(ForEachProxy(st, infos, 1), infos)

JoinProxies ==
  /\ pc = "fanOut"
  /\ \A i \in DOMAIN tasks : tasks[i] = "done"
  /\ LET st == checkProxies(Here, proxiesInfo)
     IN /\ networkFile' = st.nf
        /\ hooks' = st.hooks
  /\ step' = step + 1
  /\ pc' = "checks"
  /\ Frame
  /\ UNCHANGED <<executed, project, implsInfo, fanImpls, tasks, proxiesInfo,
                 error, failed>>

\* Promise.all rejected with the first failed lookup: checkProxies throws
JoinProxiesRejected ==
  /\ pc = "fanOut"
  /\ \E i \in DOMAIN tasks : tasks[i] = "failed"
  /\ pc' = "error"
  /\ error' = [source |-> "ledger", at |-> "checkProxies", address |-> "none"]
  /\ Frame
  /\ UNCHANGED <<networkFile, hooks, step, executed, project, implsInfo, fanImpls,
                 tasks, proxiesInfo, failed>>

EndCheckingWhenClean ==
  /\ pc = "checks"
  /\ step > Len(Checks)
  /\ hooks' = IF hooks = <<>>
              THEN Visit(Here, Hook("onEndChecking", "none", "none", NoMeta, "end")).hooks
              ELSE hooks
  /\ pc' = "done"
  /\ Frame
  /\ UNCHANGED <<networkFile, step, executed, project, implsInfo, fanImpls, tasks,
                 proxiesInfo, error, failed>>

\* line 50
EndChecking ==
  /\ pc = "checks"
  /\ step > Len(Checks)
  /\ hooks' = Visit(Here, Hook("onEndChecking", "none", "none", NoMeta, "end")).hooks
  /\ pc' = "done"
  /\ Frame
  /\ UNCHANGED <<networkFile, step, executed, project, implsInfo, fanImpls, tasks,
                 proxiesInfo, error, failed>>

\* StatusChecker.compare(networkFile).call() right after a completed fetch
\* (lines 17-26): a new checker over the fetched descriptor
StartCompare ==
  /\ pc = "done"
  /\ visitor = "fetch"
  /\ run = 1
  /\ visitor' = "compare"
  /\ run' = 2
  /\ start' = networkFile
  /\ hooks' = <<>>
  /\ pc' = "call"
  /\ step' = 1
  /\ executed' = <<>>
  /\ project' = "none"
  /\ implsInfo' = <<>>
  /\ fanImpls' = <<>>
  /\ tasks' = <<>>
  /\ proxiesInfo' = <<>>
  /\ UNCHANGED <<networkFile, chain, error, failed>>

Next ==
  \/ Project
  \/ ProjectFails
  \/ GetProjectPackage
  \/ GetProjectPackageFails
  \/ CheckVersion
  \/ CheckPackage
  \/ CheckProvider
  \/ CheckProviderFails
  \/ CheckStdlib
  \/ CheckStdlibFails
  \/ CheckImplementations
  \/ CheckImplementationsScanFails
  \/ CheckImplementationsGetCodeFails
  \/ FetchOnChainProxies
  \/ FetchOnChainProxiesFails
  \/ \E i \in 1..Len(chain.proxyEvents) : ResolveProxy(i)
  \/ \E i \in 1..Len(chain.proxyEvents) : ResolveProxyFails(i)
  \/ JoinProxies
  \/ JoinProxiesRejected
  \/ EndChecking
  \/ StartCompare

Spec == Init /\ [][Next]_vars

(***************************************************************************)
(* Vocabulary of the properties                                            *)
(***************************************************************************)
\* index of the last ImplementationChanged event of an alias, 0 if it has none
LastEventOf(log, alias) ==
  LET S == {i \in DOMAIN log : log[i].contractName = alias}
  IN IF S = {} THEN 0 ELSE CHOOSE i \in S : \A j \in S : j <= i

\* the alias is currently registered on the ledger
Registered(alias) ==
  /\ LastEventOf(chain.implEvents, alias) # 0
  /\ chain.implEvents[LastEventOf(chain.implEvents, alias)].implementation # ZERO_ADDRESS

RegisteredAddress(alias) ==
  chain.implEvents[LastEventOf(chain.implEvents, alias)].implementation

\* the registered aliases whose address is the implementation
AliasesAt(implementation) ==
  {a \in Aliases : Registered(a) /\ RegisteredAddress(a) = implementation}

CreatedProxies == {chain.proxyEvents[i].proxy : i \in DOMAIN chain.proxyEvents}

\* how often a hook was invoked for an item (an alias or a proxy address)
Fired(name, item) ==
  Cardinality({i \in DOMAIN hooks : hooks[i].hook = name /\ hooks[i].item = item})

FiredAny(name) == Cardinality({i \in DOMAIN hooks : hooks[i].hook = name})

Entered(name) == \E i \in DOMAIN executed : executed[i] = name

IsPrefix(s, t) == Len(s) <= Len(t) /\ \A i \in DOMAIN s : s[i] = t[i]

ScalarHooks ==
  {"onMismatchingVersion", "onMismatchingPackage", "onMismatchingProvider",
   "onMismatchingStdlib"}

ContractHooks ==
  {"onMissingRemoteContract", "onMismatchingContractAddress",
   "onMismatchingContractBodyBytecode", "onUnregisteredLocalContract"}

AliasProxyHooks ==
  {"onMissingRemoteProxy", "onMismatchingProxyAlias", "onMismatchingProxyImplementation"}

ProxyHooks ==
  AliasProxyHooks \cup {"onUnregisteredLocalProxy", "onMultipleProxyImplementations",
                        "onUnregisteredProxyImplementation"}

\* position in the sequence of the check a hook belongs to
Rank(name) ==
  CASE name = "onMismatchingVersion" -> 1
    [] name = "onMismatchingPackage" -> 2
    [] name = "onMismatchingProvider" -> 3
    [] name = "onMismatchingStdlib" -> 4
    [] name \in ContractHooks -> 5
    [] name \in ProxyHooks -> 6
    [] OTHER -> 7

(***************************************************************************)
(* C1: for every ImplementationChanged log, the set returned by            *)
(* _fetchOnChainImplementations holds at most one entry per alias, that    *)
(* entry carries the address of the alias's last event, and an alias whose *)
(* last event carries the zero address has no entry.                       *)
(***************************************************************************)
Reconciled(infos, log) ==
  /\ \A i, j \in DOMAIN infos : infos[i].alias = infos[j].alias => i = j
  /\ \A a \in Aliases :
       LET last == LastEventOf(log, a)
           entries == {i \in DOMAIN infos : infos[i].alias = a}
       IN IF last = 0 \/ log[last].implementation = ZERO_ADDRESS
          THEN entries = {}
          ELSE /\ entries # {}
               /\ \A i \in entries : infos[i].address = log[last].implementation

ImplementationsReturned ==
  Entered("checkImplementations") /\ failed # "ImplementationChanged"

ProxyImplementationsReturned == Entered("checkProxies") /\ failed # "ProxyCreated"

C1_LastEventWins ==
  /\ ImplementationsReturned => Reconciled(implsInfo, chain.implEvents)
  /\ ProxyImplementationsReturned => Reconciled(fanImpls, chain.implEvents)

\* a log where an alias was registered and then set to the zero address
C1_Witness ==
  /\ ImplementationsReturned
  /\ \E i, j \in DOMAIN chain.implEvents :
       /\ i < j
       /\ chain.implEvents[i].contractName = chain.implEvents[j].contractName
       /\ chain.implEvents[i].implementation # ZERO_ADDRESS
       /\ chain.implEvents[j].implementation = ZERO_ADDRESS

(***************************************************************************)
(* C2: the checks run in the order version, package, provider, stdlib,     *)
(* implementations, proxies for an app and provider, implementations for a *)
(* library; a library run invokes no version, package, stdlib or proxy     *)
(* hook.                                                                   *)
(***************************************************************************)
AppOrder ==
  <<"checkVersion", "checkPackage", "checkProvider", "checkStdlib",
    "checkImplementations", "checkProxies">>

LibOrder == <<"checkProvider", "checkImplementations">>

C2_CheckOrder ==
  LET order == IF networkFile.isLib THEN LibOrder ELSE AppOrder
  IN /\ IsPrefix(executed, order)
     /\ pc = "done" => executed = order
     /\ \A i, j \in DOMAIN hooks : i < j => Rank(hooks[i].hook) <= Rank(hooks[j].hook)
     /\ networkFile.isLib =>
          \A i \in DOMAIN hooks :
             hooks[i].hook \notin (ProxyHooks \cup
               {"onMismatchingVersion", "onMismatchingPackage", "onMismatchingStdlib"})

\* a completed library run whose version and stdlib differ from the ledger's
C2_Witness ==
  /\ pc = "done"
  /\ networkFile.isLib
  /\ visitor = "compare"
  /\ chain.version # networkFile.version
  /\ chain.stdlib # ZERO_ADDRESS /\ networkFile.stdlibAddress = "undefined"
  /\ FiredAny("onMismatchingProvider") = 1

(***************************************************************************)
(* C3: a fetch run followed at once by a compare run over the fetched      *)
(* descriptor and the same ledger fires no discrepancy hook in the compare *)
(* run, whatever the descriptor and the ledger were.                       *)
(***************************************************************************)
C3_CompareAfterFetchIsSilent ==
  run = 2 => \A i \in DOMAIN hooks : hooks[i].hook = "onEndChecking"

\* every created proxy runs an implementation registered under one alias
ProxiesAccountedFor ==
  \A p \in CreatedProxies : Cardinality(AliasesAt(chain.proxyImpl[p])) = 1

\* C3 as amended: the compare run that follows a fetch fires no discrepancy
\* hook other than onUnregisteredProxyImplementation and
\* onMultipleProxyImplementations, which it fires again for every created proxy
\* whose implementation is registered under no alias or under several; when
\* every created proxy runs an implementation registered under exactly one
\* alias it fires none at all.
C3_CompareAfterFetch ==
  run = 2 =>
    /\ \A i \in DOMAIN hooks :
          hooks[i].hook \in {"onEndChecking", "onUnregisteredProxyImplementation",
                             "onMultipleProxyImplementations"}
    /\ ProxiesAccountedFor => \A i \in DOMAIN hooks : hooks[i].hook = "onEndChecking"
    /\ pc = "done" =>
         \A p \in CreatedProxies :
            /\ AliasesAt(chain.proxyImpl[p]) = {}
                 => Fired("onUnregisteredProxyImplementation", p) = 1
            /\ Cardinality(AliasesAt(chain.proxyImpl[p])) > 1
                 => Fired("onMultipleProxyImplementations", p) = 1

\* a completed compare after a fetch that wrote contracts and proxies, over a
\* ledger with a proxy whose implementation is not registered
C3_Witness ==
  /\ run = 2
  /\ pc = "done"
  /\ networkFile.proxies # <<>>
  /\ DOMAIN networkFile.contracts # {}
  /\ \E p \in CreatedProxies : AliasesAt(chain.proxyImpl[p]) = {}

(***************************************************************************)
(* C4: for a proxy whose implementation is the address of more than one    *)
(* registered alias, onMultipleProxyImplementations fires exactly once and *)
(* no other proxy hook fires for that proxy's address, whether or not the  *)
(* descriptor lists the proxy.                                             *)
(***************************************************************************)
C4_OnlyMultipleForAmbiguousProxy ==
  pc = "done" =>
    \A p \in CreatedProxies :
       Cardinality(AliasesAt(chain.proxyImpl[p])) > 1 =>
         /\ Fired("onMultipleProxyImplementations", p) = 1
         /\ \A h \in ProxyHooks \ {"onMultipleProxyImplementations"} : Fired(h, p) = 0

(***************************************************************************)
(* C5: for a proxy whose implementation is the address of no registered    *)
(* alias, onUnregisteredProxyImplementation fires exactly once and none of *)
(* onMissingRemoteProxy, onMismatchingProxyAlias and                       *)
(* onMismatchingProxyImplementation fires for it.                          *)
(***************************************************************************)
C5_UnregisteredProxyImplementation ==
  \A p \in CreatedProxies :
     AliasesAt(chain.proxyImpl[p]) = {} =>
       /\ Fired("onUnregisteredProxyImplementation", p) <= 1
       /\ pc = "done" => Fired("onUnregisteredProxyImplementation", p) = 1
       /\ \A h \in AliasProxyHooks : Fired(h, p) = 0

\* a completed run over a proxy the descriptor lists and whose implementation
\* no alias registers, next to registered implementations
C5_Witness ==
  /\ pc = "done"
  /\ \E p \in CreatedProxies :
       /\ AliasesAt(chain.proxyImpl[p]) = {}
       /\ \E i \in DOMAIN start.proxies : start.proxies[i].address = p
       /\ \E a \in Aliases : Registered(a)

(***************************************************************************)
(* C6: when resolving the deployment handle fails, call() ends in an error *)
(* and no hook has been invoked in that run, onEndChecking included.       *)
(***************************************************************************)
C6_NoHookWithoutHandle ==
  failed = "fetchProject" =>
    /\ pc = "error"
    /\ error.source = "project"
    /\ hooks = <<>>

\* the handle of an app whose version differs from the ledger's is not resolved
C6_Witness ==
  /\ failed = "fetchProject"
  /\ ~networkFile.isLib
  /\ chain.version # networkFile.version

(***************************************************************************)
(* C7: when a ledger read fails during a check, the run aborts with an     *)
(* error: no hook of a later check is invoked, onEndChecking is never      *)
(* invoked, and the hooks fired before stay fired.                         *)
(***************************************************************************)
\* position in the sequence of the check whose read failed
FailedRank ==
  CASE failed \in {"fetchProject", "getProjectPackage"} -> 0
    [] failed = "getCurrentDirectory" -> 3
    [] failed = "currentStdlib" -> 4
    [] failed \in {"ImplementationChanged", "getCode"} -> 5
    [] OTHER -> 6

AbortedByReadFailure ==
  failed # "none" =>
    /\ pc \in {"error", "fanOut"}
    /\ pc = "error" => error.source # "none"
    /\ \A i \in DOMAIN hooks : Rank(hooks[i].hook) <= FailedRank

C7_ReadFailureAborts ==
  /\ []AbortedByReadFailure
  /\ [][failed' # "none" /\ run' = run => IsPrefix(hooks, hooks')]_vars

\* the stdlib read fails after the version hook fired, with a local-only
\* contract still to be reported by the implementation check
C7_Witness ==
  /\ failed = "currentStdlib"
  /\ pc = "error"
  /\ FiredAny("onMismatchingVersion") = 1
  /\ \E a \in DOMAIN networkFile.contracts : ~Registered(a)

(***************************************************************************)
(* C8: in a run with no read failure every check reports from its own      *)
(* local and ledger values alone: a discrepancy reported by an earlier     *)
(* check never keeps a later check from running and reporting.             *)
(***************************************************************************)
Listed(nf, p) == {i \in DOMAIN nf.proxies : nf.proxies[i].address = p}

Accepted(p) == p \in CreatedProxies /\ Cardinality(AliasesAt(chain.proxyImpl[p])) = 1

C8_ChecksAreIndependent ==
  pc = "done" =>
    /\ FiredAny("onMismatchingProvider") =
         IF chain.providerAddress # start.providerAddress THEN 1 ELSE 0
    /\ \A a \in Aliases :
         /\ Fired("onUnregisteredLocalContract", a) =
              IF a \in DOMAIN start.contracts /\ ~Registered(a) THEN 1 ELSE 0
         /\ Fired("onMissingRemoteContract", a) =
              IF Registered(a) /\ a \notin DOMAIN start.contracts THEN 1 ELSE 0
    /\ ~networkFile.isLib =>
         /\ FiredAny("onMismatchingVersion") =
              IF chain.version # start.version THEN 1 ELSE 0
         /\ FiredAny("onMismatchingPackage") =
              IF chain.packageAddress # start.packageAddress THEN 1 ELSE 0
         /\ FiredAny("onMismatchingStdlib") =
              IF (IF chain.stdlib = ZERO_ADDRESS THEN "none" ELSE chain.stdlib)
                 # (IF start.stdlibAddress = "undefined" THEN "none"
                    ELSE start.stdlibAddress)
              THEN 1 ELSE 0
         /\ \A p \in ProxyAddrs :
              /\ Fired("onMissingRemoteProxy", p) =
                   IF Accepted(p) /\ Listed(start, p) = {} THEN 1 ELSE 0
              /\ Fired("onUnregisteredLocalProxy", p) =
                   IF Accepted(p) THEN 0 ELSE Cardinality(Listed(start, p))

\* a completed app run in which all four scalar checks, the implementation
\* check and the proxy check reported
C8_Witness ==
  /\ pc = "done"
  /\ ~networkFile.isLib
  /\ \A h \in ScalarHooks : FiredAny(h) = 1
  /\ FiredAny("onMissingRemoteContract") = 1
  /\ FiredAny("onUnregisteredLocalContract") = 1
  /\ FiredAny("onMissingRemoteProxy") = 1
  /\ FiredAny("onUnregisteredLocalProxy") = 1

(***************************************************************************)
(* C9: a run in which no ledger read fails ends normally and invokes       *)
(* onEndChecking exactly once, after every discrepancy hook, however many  *)
(* discrepancies it found; it never ends in an error without a read        *)
(* failure.                                                                *)
(***************************************************************************)
EndsOnce ==
  /\ pc = "error" => failed # "none"
  /\ pc = "done" =>
       /\ failed = "none"
       /\ FiredAny("onEndChecking") = 1
       /\ hooks[Len(hooks)].hook = "onEndChecking"
  /\ pc # "done" => FiredAny("onEndChecking") = 0

\* the steps of a run in which every read returns
Progress ==
  \/ Project
  \/ GetProjectPackage
  \/ CheckVersion
  \/ CheckPackage
  \/ CheckProvider
  \/ CheckStdlib
  \/ CheckImplementations
  \/ FetchOnChainProxies
  \/ \E i \in DOMAIN tasks : ResolveProxy(i)
  \/ JoinProxies
  \/ EndChecking

\* what is left of the runs: every step uses some of it up
Remaining ==
  LET pending == Cardinality({i \in DOMAIN tasks : tasks[i] = "pending"})
      stage == CASE pc = "call" -> 40
                 [] pc = "log" -> 39
                 [] pc = "checks" -> 3 * (8 - step) + 3
                 [] pc = "fanOut" -> 3 * (8 - step) + 1
                 [] pc = "done" -> 2
                 [] OTHER -> 0
  IN 1000 * (2 - run) + 10 * stage + pending

C9_EndsNormally ==
  /\ []EndsOnce
  /\ [](pc \notin {"done", "error"} /\ failed = "none" => ENABLED Progress)
  /\ [][Remaining' < Remaining /\ Remaining' >= 0]_vars

\* a completed run that reported several discrepancies before onEndChecking
C9_Witness ==
  /\ pc = "done"
  /\ Len(hooks) >= 5
  /\ hooks[Len(hooks)].hook = "onEndChecking"

(***************************************************************************)
(* C10: once the implementation check has run, every alias of the          *)
(* descriptor that is not registered got exactly one                       *)
(* onUnregisteredLocalContract, every registered alias the descriptor      *)
(* lacks got exactly one onMissingRemoteContract and no address or         *)
(* bytecode hook, and an alias on both sides with equal address and equal  *)
(* bytecode hash got no hook.                                              *)
(***************************************************************************)
ImplementationsChecked ==
  Entered("checkImplementations") /\ failed \notin {"ImplementationChanged", "getCode"}

C10_ImplementationSymmetry ==
  ImplementationsChecked =>
    \A a \in Aliases :
       LET local == a \in DOMAIN start.contracts
           remote == Registered(a)
       IN /\ local /\ ~remote => Fired("onUnregisteredLocalContract", a) = 1
          /\ remote /\ ~local =>
               /\ Fired("onMissingRemoteContract", a) = 1
               /\ Fired("onMismatchingContractAddress", a) = 0
               /\ Fired("onMismatchingContractBodyBytecode", a) = 0
          /\ ( /\ local /\ remote
               /\ start.contracts[a].address = RegisteredAddress(a)
               /\ start.contracts[a].bodyBytecodeHash
                    = bytecodeDigest(getCode(RegisteredAddress(a))) )
               => \A h \in ContractHooks : Fired(h, a) = 0

\* a fetch run over a descriptor with a local-only alias and a ledger with a
\* remote-only alias that was re-registered
C10_Witness ==
  /\ pc = "done"
  /\ visitor = "fetch"
  /\ run = 1
  /\ Len(chain.implEvents) = 2
  /\ \E a, b \in Aliases :
       /\ a \in DOMAIN start.contracts /\ ~Registered(a)
       /\ b \notin DOMAIN start.contracts /\ Registered(b)

(***************************************************************************)
(* C11: proxies are reconciled by address.  Once the proxy check returned, *)
(* a created proxy whose implementation is registered under exactly one    *)
(* alias got exactly one onMissingRemoteProxy when the descriptor lists no *)
(* entry at its address and no proxy hook at all when the descriptor entry *)
(* at its address carries that alias and that implementation; and every    *)
(* descriptor entry whose address is not among the resolved proxies got    *)
(* exactly one onUnregisteredLocalProxy.                                   *)
(***************************************************************************)
ProxiesChecked == Entered("checkProxies") /\ pc \in {"checks", "done"}

\* how often onUnregisteredLocalProxy was invoked with the entry as metadata
ReportedLocalOnly(entry) ==
  Cardinality({i \in DOMAIN hooks :
                 /\ hooks[i].hook = "onUnregisteredLocalProxy"
                 /\ hooks[i].meta = entry})

C11_ProxiesKeyedByAddress ==
  ProxiesChecked =>
    /\ {proxiesInfo[i].address : i \in DOMAIN proxiesInfo} = {p \in ProxyAddrs : Accepted(p)}
    /\ \A p \in ProxyAddrs :
         Accepted(p) =>
           /\ Listed(start, p) = {} => Fired("onMissingRemoteProxy", p) = 1
           /\ ( /\ Listed(start, p) # {}
                /\ \A i \in Listed(start, p) :
                     /\ start.proxies[i].alias \in AliasesAt(chain.proxyImpl[p])
                     /\ start.proxies[i].implementation = chain.proxyImpl[p] )
                => \A h \in ProxyHooks : Fired(h, p) = 0
    /\ \A i \in DOMAIN start.proxies :
         ~Accepted(start.proxies[i].address) => ReportedLocalOnly(start.proxies[i]) = 1

\* two created proxies of one registered alias, the first listed by the
\* descriptor with that alias and implementation, the second not listed
C11_Witness ==
  /\ ProxiesChecked
  /\ visitor = "compare"
  /\ Len(chain.proxyEvents) = 2
  /\ \A p \in CreatedProxies : Accepted(p)
  /\ Len(start.proxies) = 1
  /\ start.proxies[1].address = "0xP1"
  /\ start.proxies[1].alias \in AliasesAt(chain.proxyImpl["0xP1"])
  /\ start.proxies[1].implementation = chain.proxyImpl["0xP1"]
  /\ Fired("onMissingRemoteProxy", "0xP2") = 1
  /\ \A h \in ProxyHooks : Fired(h, "0xP1") = 0
  /\ \A h \in ProxyHooks \ {"onMissingRemoteProxy"} : FiredAny(h) = 0

(***************************************************************************)
(* C12: the stdlib check turns the zero address on the ledger side and an  *)
(* absent stdlibAddress on the descriptor side into the same value "none": *)
(* onMismatchingStdlib fires, once and with the two normalized values, if  *)
(* and only if they differ, so an unset local stdlib against a zero        *)
(* address on the ledger is no discrepancy.                                *)
(***************************************************************************)
StdlibChecked == Entered("checkStdlib") /\ failed # "currentStdlib"

NormalizedLedgerStdlib == IF chain.stdlib = ZERO_ADDRESS THEN "none" ELSE chain.stdlib

NormalizedLocalStdlib ==
  IF start.stdlibAddress = "undefined" THEN "none" ELSE start.stdlibAddress

C12_StdlibNormalized ==
  StdlibChecked =>
    /\ FiredAny("onMismatchingStdlib") =
         IF NormalizedLedgerStdlib # NormalizedLocalStdlib THEN 1 ELSE 0
    /\ \A i \in DOMAIN hooks :
         hooks[i].hook = "onMismatchingStdlib" =>
           /\ hooks[i].expected = NormalizedLocalStdlib
           /\ hooks[i].observed = NormalizedLedgerStdlib
    /\ start.stdlibAddress = "undefined" /\ chain.stdlib = ZERO_ADDRESS
         => FiredAny("onMismatchingStdlib") = 0

\* the stdlib check ran over an unset local stdlib and a zero address on the
\* ledger, after the version check reported
C12_Witness ==
  /\ StdlibChecked
  /\ start.stdlibAddress = "undefined"
  /\ chain.stdlib = ZERO_ADDRESS
  /\ FiredAny("onMismatchingVersion") = 1
  /\ FiredAny("onMismatchingStdlib") = 0

(***************************************************************************)
(* C13: in compare mode the descriptor is read-only: in every state of a   *)
(* compare run, whatever was reported and also after the run aborted, the  *)
(* version, the addresses, the contracts and the proxies of the descriptor *)
(* are what they were when the run started.                                *)
(***************************************************************************)
C13_CompareIsReadOnly ==
  visitor = "compare" =>
    /\ networkFile.isLib = start.isLib
    /\ networkFile.version = start.version
    /\ networkFile.appAddress = start.appAddress
    /\ networkFile.packageAddress = start.packageAddress
    /\ networkFile.providerAddress = start.providerAddress
    /\ networkFile.stdlibAddress = start.stdlibAddress
    /\ networkFile.contracts = start.contracts
    /\ networkFile.proxies = start.proxies

\* a compare run that reported a scalar and a contract discrepancy and then
\* aborted on a failed proxy lookup
C13_Witness ==
  /\ visitor = "compare"
  /\ pc = "error"
  /\ failed = "getProxyImplementation"
  /\ \E h \in ScalarHooks : FiredAny(h) = 1
  /\ \E h \in ContractHooks : FiredAny(h) = 1

(***************************************************************************)
(* C14: an item without a counterpart is reported through one hook only:   *)
(* in a completed run no alias and no proxy address was reported through   *)
(* two different hooks of the kind; in particular a proxy the descriptor   *)
(* lists and whose implementation on the ledger is not registered was not  *)
(* reported by both onUnregisteredProxyImplementation and                  *)
(* onUnregisteredLocalProxy.                                               *)
(***************************************************************************)
NoCounterpartContractHooks == {"onMissingRemoteContract", "onUnregisteredLocalContract"}

NoCounterpartProxyHooks ==
  {"onMissingRemoteProxy", "onUnregisteredLocalProxy",
   "onUnregisteredProxyImplementation", "onMultipleProxyImplementations"}

C14_OneHookPerItem ==
  pc = "done" =>
    /\ \A a \in Aliases :
         Cardinality({h \in NoCounterpartContractHooks : Fired(h, a) > 0}) <= 1
    /\ \A p \in ProxyAddrs :
         Cardinality({h \in NoCounterpartProxyHooks : Fired(h, p) > 0}) <= 1

(***************************************************************************)
(* C15: the proxy lookups are joined before matching: while the lookup of  *)
(* some created proxy has not completed, no proxy has been matched against *)
(* the implementations, that is, neither onMultipleProxyImplementations    *)
(* nor onUnregisteredProxyImplementation was invoked and no proxy was      *)
(* accepted into proxiesInfo.                                              *)
(***************************************************************************)
LookupsPending == \E i \in DOMAIN tasks : tasks[i] = "pending"

C15_JoinedBeforeMatching ==
  pc = "fanOut" /\ LookupsPending =>
    /\ FiredAny("onMultipleProxyImplementations") = 0
    /\ FiredAny("onUnregisteredProxyImplementation") = 0
    /\ proxiesInfo = <<>>

(***************************************************************************)
(* The ledger is append-only and shared: the directory may emit a further  *)
(* ImplementationChanged event while a run is between its implementation   *)
(* check and its proxy check.                                              *)
(***************************************************************************)
\* an event that changes the registrations is appended to the log that
\* checkImplementations has scanned and _fetchOnChainProxies has yet to scan
AppendImplementationChanged ==
  /\ At("checkProxies")
  /\ Entered("checkImplementations")
  /\ implsInfo = _fetchOnChainImplementations(chain.implEvents)
  /\ \E event \in ImplementationChanged :
       /\ _fetchOnChainImplementations(Append(chain.implEvents, event)) # implsInfo
       /\ chain' = [chain EXCEPT !.implEvents = Append(@, event)]
  /\ UNCHANGED <<networkFile, visitor, hooks, pc, step, executed, project, implsInfo,
                 fanImpls, tasks, proxiesInfo, error, failed, run, start>>

NextLedgerGrows ==
  \/ Next
  \/ AppendImplementationChanged

SpecLedgerGrows == Init /\ [][NextLedgerGrows]_vars

(***************************************************************************)
(* C16: within one run the proxy check matches the proxies against the     *)
(* reconciled implementations that the implementation check of that run    *)
(* produced, also when ImplementationChanged events were appended to the   *)
(* log between the two checks.                                             *)
(***************************************************************************)
C16_SameImplementationSet ==
  ProxyImplementationsReturned => fanImpls = implsInfo

(***************************************************************************)
(* C17: for an alias of the descriptor that is registered, the address     *)
(* check and the bytecode check are independent: once the implementation   *)
(* check returned, onMismatchingContractAddress fired (once) iff the       *)
(* registered address differs from the stored one, and                     *)
(* onMismatchingContractBodyBytecode fired (once) iff the digest of the    *)
(* code at the registered address differs from the stored digest; both may *)
(* fire for one alias, and an address mismatch does not suppress the       *)
(* bytecode check.                                                         *)
(***************************************************************************)
C17_AddressAndBytecodeIndependent ==
  ImplementationsChecked =>
    \A a \in Aliases :
       a \in DOMAIN start.contracts /\ Registered(a) =>
         /\ Fired("onMismatchingContractAddress", a) =
              IF RegisteredAddress(a) # start.contracts[a].address THEN 1 ELSE 0
         /\ Fired("onMismatchingContractBodyBytecode", a) =
              IF bytecodeDigest(getCode(RegisteredAddress(a)))
                   # start.contracts[a].bodyBytecodeHash
              THEN 1 ELSE 0

\* a compare run over an alias whose registered address and whose code both
\* differ from what the descriptor stores: both hooks fired for it
C17_Witness ==
  /\ ImplementationsChecked
  /\ visitor = "compare"
  /\ \E a \in DOMAIN start.contracts :
       /\ Registered(a)
       /\ RegisteredAddress(a) # start.contracts[a].address
       /\ Fired("onMismatchingContractAddress", a) = 1
       /\ Fired("onMismatchingContractBodyBytecode", a) = 1

(***************************************************************************)
(* C18: the error raised when the deployment handle cannot be resolved     *)
(* names the address the handle was resolved from: the app address of an   *)
(* app descriptor, the package address of a library descriptor.            *)
(***************************************************************************)
C18_ErrorNamesResolvedAddress ==
  failed = "fetchProject" =>
    error.address = IF networkFile.isLib THEN networkFile.packageAddress
                    ELSE networkFile.appAddress

(***************************************************************************)
(* C19: once call() has rejected, no hook is invoked any more: no step     *)
(* taken after the error was delivered adds a hook; in particular a lookup *)
(* still pending when another lookup of the fan-out failed fires neither   *)
(* onMultipleProxyImplementations nor onUnregisteredProxyImplementation    *)
(* after the run was reported as aborted.                                  *)
(***************************************************************************)
C19_NoHookAfterError == [][pc = "error" => hooks' = hooks]_vars

(***************************************************************************)
(* C20: for a fixed descriptor and ledger the outcome of the proxy check   *)
(* does not depend on the order in which the lookups complete: whatever    *)
(* the order, the proxy hooks invoked are, as a multiset, those of the     *)
(* lookups completing in the order of the ProxyCreated log, every resolved *)
(* proxy is collected exactly once, and in fetch mode the descriptor ends  *)
(* up the same.                                                            *)
(***************************************************************************)
\* lines 181-193 with the callbacks completing in the order of proxyEvents,
\* from the i-th on
RECURSIVE InLogOrder(_, _, _)
InLogOrder(st, infos, i) ==
  IF i > Len(chain.proxyEvents) THEN [st |-> st, infos |-> infos]
  ELSE LET address == chain.proxyEvents[i].proxy
           implementation == chain.proxyImpl[address]
           matching == matchingImplementations(fanImpls, implementation)
       IN IF Len(matching) > 1
          THEN InLogOrder(Visit(st, Hook("onMultipleProxyImplementations", "one",
                                         ToString(Len(matching)),
                                         [implementation |-> implementation], address)),
                          infos, i + 1)
          ELSE IF Len(matching) = 0
          THEN InLogOrder(Visit(st, Hook("onUnregisteredProxyImplementation", "one", "none",
                                         [address |-> address,
                                          implementation |-> implementation], address)),
                          infos, i + 1)
          ELSE InLogOrder(st, Append(infos, [alias |-> matching[1].alias,
                                             implementation |-> implementation,
                                             address |-> address]), i + 1)

\* the proxy check of this run, had its lookups completed in log order
ReferenceProxyCheck ==
  LET resolved == InLogOrder([nf |-> [networkFile EXCEPT !.proxies = start.proxies],
                              hooks |-> <<>>], <<>>, 1)
  IN checkProxies(resolved.st, resolved.infos)

ProxyHooksFired == SelectSeq(hooks, LAMBDA h : h.hook \in ProxyHooks)

Times(seq, x) == Cardinality({i \in DOMAIN seq : seq[i] = x})

SameHooksAsInLogOrder ==
  LET ref == ReferenceProxyCheck.hooks
  IN /\ Len(ref) = Len(ProxyHooksFired)
     /\ \A i \in DOMAIN ref : Times(ref, ref[i]) = Times(ProxyHooksFired, ref[i])

CollectedOnce ==
  /\ \A i, j \in DOMAIN proxiesInfo :
        proxiesInfo[i].address = proxiesInfo[j].address => i = j
  /\ {proxiesInfo[i] : i \in DOMAIN proxiesInfo} =
       LET ref == InLogOrder(Here, <<>>, 1).infos IN {ref[i] : i \in DOMAIN ref}

SameDescriptorAsInLogOrder == networkFile = ReferenceProxyCheck.nf

C20_CompletionOrderIrrelevant ==
  ProxiesChecked =>
    /\ SameHooksAsInLogOrder
    /\ CollectedOnce
    /\ visitor = "fetch" => SameDescriptorAsInLogOrder

=============================================================================
